---------------------------- MODULE Spec2Model ----------------------------
(***************************************************************************)
(* State-machine model of the MediaPlayer component                        *)
(* (src/src/components/audio-player.tsx) together with the native <video>  *)
(* element it drives.                                                      *)
(*                                                                         *)
(* One action models one complete event dispatch: the handler body, the    *)
(* batched state update, the re-render, and the track-change effect        *)
(* (cleanup of the previous effect, then the new effect body) when one of  *)
(* its dependencies [currentTrackIndex, tracks] changed.                   *)
(*                                                                         *)
(* Number encoding.  Times are whole seconds.  The media durations used    *)
(* divide 100 * t exactly, so (current / duration) * 100 is an integer.    *)
(* The non-finite doubles the code can produce are the sentinels NaN and   *)
(* Infinity.  A playback rate r is stored as 2 * r (0.5, 1, 1.5, 2 are     *)
(* 1, 2, 3, 4).  A seek fraction is a number of halves of the bar width.   *)
(***************************************************************************)
EXTENDS Integers, Sequences, FiniteSets, TLC

VARIABLES
    \* React state of the component (useState hooks)
    isPlaying, isMuted, progress, currentTime, duration, playbackRate,
    tracks, currentTrackIndex,
    \* videoRef.current: TRUE when it refers to the mounted <video> element
    videoRef,
    \* track-change effect: the loadeddata listeners on the element, in
    \* registration order, and whether the last effect run returned a cleanup
    listeners, hasCleanup,
    \* the native media element: [src, paused, muted, rate, time, duration,
    \* ready, tuQueued]
    el,
    \* object URLs handed out by URL.createObjectURL (index = URL)
    blobStore,
    \* history: the last operation, the commands it issued to the element in
    \* order, and the last track switch (what caused it, the playing flag
    \* before it, no user action since, and whether it followed a resume)
    lastOp, issued, switch,
    \* the time readout: a number of seconds given to formatTime and the text
    \* it returned, a sequence of characters (empty before it is rendered)
    fmtTime, fmtText

stateVars == <<isPlaying, isMuted, progress, currentTime, duration,
               playbackRate, tracks, currentTrackIndex>>
effectVars == <<listeners, hasCleanup>>
fmtVars == <<fmtTime, fmtText>>
playerVars == <<stateVars, videoRef, effectVars, el, blobStore,
                lastOp, issued, switch>>
vars == <<playerVars, fmtVars>>

---------------------------------------------------------------------------
\* Bounds of the model
MaxTracks == 3      \* longest playlist explored
MaxSeconds == 3600  \* longest time given to formatTime

\* The media files a user can pick, and the duration of each (seconds)
Files == {"a.mp4", "b.mp4"}
FileDuration(f) == IF f = "a.mp4" THEN 20 ELSE 4

\* Seconds the playback position moves in one playback step of an element
\* whose media lasts d seconds: half of the media
PlaybackStep(d) == d \div 2

\* Non-finite doubles
NaN == -1
Infinity == -2
IsFinite(x) == x # NaN /\ x # Infinity

\* el.src before any src was assigned
NoSrc == 0

\* The rates of the speed buttons, as 2 * rate
Rates == {1, 2, 3, 4}
\* The click positions on the progress bar, in halves of its width
Fractions == {0, 1, 2}

\* What one use of the file picker can deliver: some of the files, each
\* once, in any order
Selections ==
    {sel \in UNION {[1..k -> Files] : k \in 0..Cardinality(Files)} :
        \A i, j \in 1..Len(sel) : i # j => sel[i] # sel[j]}
Min(a, b) == IF a < b THEN a ELSE b
Max(a, b) == IF a > b THEN a ELSE b

---------------------------------------------------------------------------
\* Pure helpers, computed as the code computes them

\* (mutant) next without the wraparound
NextIndexNoWrap(prevIndex, len) ==
    IF len = 0 \/ prevIndex = NaN THEN NaN ELSE prevIndex + 1

\* (prevIndex + 1) % tracks.length on doubles: x % 0 and NaN % n are NaN
NextIndex(prevIndex, len) ==
    IF len = 0 \/ prevIndex = NaN THEN NaN ELSE (prevIndex + 1) % len

\* tracks[currentTrackIndex] is truthy (JS arrays are 0-based)
HasTrack(ts, idx) == idx # NaN /\ idx >= 0 /\ idx < Len(ts)
TrackAt(ts, idx) == ts[idx + 1]

\* (current / duration) * 100 on doubles
Percent(current, dur) ==
    IF current = NaN \/ dur = NaN THEN NaN
    ELSE IF dur = 0 THEN (IF current = 0 THEN NaN ELSE Infinity)
    ELSE (current * 100) \div dur

\* Array.from(files).map(file => ({title: file.name, src: createObjectURL}))
\* where the URLs handed out so far are 1..base
NewTracks(files, base) ==
    [i \in 1..Len(files) |-> [title |-> files[i], src |-> base + i]]

\* (mutant) an upload that skips files whose name is already in the playlist
MergeTracksDedup(prevTracks, newTracks) ==
    prevTracks \o SelectSeq(newTracks,
        LAMBDA t : \A i \in 1..Len(prevTracks) : prevTracks[i].title # t.title)

\* [...prevTracks, ...newTracks]
MergeTracks(prevTracks, newTracks) == prevTracks \o newTracks

\* Object.is on the effect's dependency list [currentTrackIndex, tracks];
\* a new array is a new reference even with equal contents, NaN is NaN
DepsChanged(idx, newRef) == idx # currentTrackIndex \/ newRef

\* removeEventListener(onLoadedData) of the previous effect run: its listener
\* is the most recently registered one
RemoveListener(ls) == IF Len(ls) = 0 THEN ls ELSE SubSeq(ls, 1, Len(ls) - 1)
\* (mutant) an effect that returns no cleanup
CleanupNothing(ls) == ls
Cleanup(ls) == IF hasCleanup /\ videoRef THEN RemoveListener(ls) ELSE ls

\* The closure registered by one effect run: the isPlaying of its render and
\* the source the run loaded
Listener(playing, src) == [isPlaying |-> playing, src |-> src]

\* History of the operations the properties below speak about.  toggle,
\* upload, next and loadeddata are recorded by name, every other operation
\* as "other"; n is the number of files of an upload (they are the last n
\* entries of blobStore), pre the isPlaying before a toggle, rep whether a
\* toggle or next directly follows another one
Op(name, n) == [name |-> name, n |-> n,
                pre |-> name = "toggle" /\ isPlaying,
                rep |-> name \in {"toggle", "next"} /\ lastOp.name = name]
OtherOp == Op("other", 0)

\* String(n) of a whole number n >= 0, as a sequence of characters
DigitChar(d) == <<"0", "1", "2", "3", "4", "5", "6", "7", "8", "9">>[d + 1]
RECURSIVE Dec(_)
Dec(n) == IF n < 10 THEN <<DigitChar(n)>>
          ELSE Dec(n \div 10) \o <<DigitChar(n % 10)>>

\* (mutant) formatTime without the zero padding of the seconds
FormatTimeNoPad(time) ==
    Dec(time \div 60) \o <<":">> \o Dec(time % 60)

\* formatTime on a whole number of seconds: Math.floor(time / 60),
\* Math.floor(time % 60) and the template `${minutes}:${pad}${seconds}`
FormatTime(time) ==
    LET minutes == time \div 60
        seconds == time % 60
    IN  Dec(minutes) \o <<":">>
          \o (IF seconds < 10 THEN <<"0">> ELSE <<>>) \o Dec(seconds)

---------------------------------------------------------------------------
\* The native media element (HTMLMediaElement), as far as the component
\* drives and observes it

\* play(): clears paused; at the end of the media it first seeks to the start
ElPlay(e) ==
    IF e.ready = "data" /\ e.time = e.duration /\ e.time # 0
    THEN [e EXCEPT !.paused = FALSE, !.time = 0, !.tuQueued = TRUE]
    ELSE [e EXCEPT !.paused = FALSE]

\* pause()
ElPause(e) == [e EXCEPT !.paused = TRUE]

\* src = s; load(): back to HAVE_NOTHING, position 0, duration NaN; a
\* timeupdate is queued when this moved the position
ElLoad(e, s) ==
    [e EXCEPT !.src = s, !.paused = TRUE, !.ready = "nothing",
              !.time = 0, !.duration = NaN,
              !.tuQueued = e.tuQueued \/ e.time # 0]

\* currentTime = t with finite t: clamped to the media; before the metadata
\* is known the position does not move
ElSeek(e, t) ==
    IF e.ready = "nothing" THEN e
    ELSE [e EXCEPT !.time = Max(0, Min(t, e.duration)), !.tuQueued = TRUE]

---------------------------------------------------------------------------
PlayerInit ==
    /\ isPlaying = FALSE
    /\ isMuted = FALSE
    /\ progress = 0
    /\ currentTime = 0
    /\ duration = 0
    /\ playbackRate = 2
    /\ tracks = <<>>
    /\ currentTrackIndex = 0
    /\ videoRef = TRUE
    /\ listeners = <<>>
    /\ hasCleanup = FALSE
    /\ el = [src |-> NoSrc, paused |-> TRUE, muted |-> FALSE, rate |-> 2,
             time |-> 0, duration |-> NaN, ready |-> "nothing",
             tuQueued |-> FALSE]
    /\ blobStore = <<>>
    /\ lastOp = [name |-> "mount", n |-> 0, pre |-> FALSE, rep |-> FALSE]
    /\ issued = <<>>
    /\ switch = [by |-> "none", wasPlaying |-> FALSE, quiet |-> FALSE,
                 chained |-> FALSE]

Init ==
    /\ PlayerInit
    /\ fmtTime = 0
    /\ fmtText = <<>>

\* (mutant) an effect that does not reset the progress
EffectProgressKept == progress

\* The values the track-change effect stores after loading a track
EffectIsPlaying == FALSE
EffectProgress == 0
EffectCurrentTime == 0

\* (mutant) a closure that sees the isPlaying from before the handler ran
CapturedIsPlayingStale(renderPlaying) == isPlaying

\* The isPlaying the effect's onLoadedData closure sees: that of the render
\* the effect belongs to
CapturedIsPlaying(renderPlaying) == renderPlaying

\* History: a user action ends the quiet time after a switch
UserActed(sw) == [sw EXCEPT !.quiet = FALSE, !.chained = FALSE]

\* History: the last switch was a next made while playing, its loadeddata
\* has fired and resumed the element, and no user action came since
Resumed ==
    /\ switch.by = "next"
    /\ switch.wasPlaying
    /\ switch.quiet
    /\ el.ready = "data"
    /\ ~el.paused

\* Re-render with the state (ts, idx, playing, prog, cur) a handler produced,
\* then the effect of lines 101-124 when its dependencies changed
Commit(ts, newRef, idx, playing, prog, cur, by) ==
    LET changed == DepsChanged(idx, newRef)
        runs == changed /\ videoRef /\ HasTrack(ts, idx)
        cleaned == IF changed THEN Cleanup(listeners) ELSE listeners
    IN  /\ tracks' = ts
        /\ currentTrackIndex' = idx
        /\ IF runs
           THEN /\ el' = ElLoad(ElPause(el), TrackAt(ts, idx).src)
                /\ isPlaying' = EffectIsPlaying
                /\ progress' = EffectProgress
                /\ currentTime' = EffectCurrentTime
                /\ listeners' = Append(cleaned,
                                       Listener(CapturedIsPlaying(playing),
                                                TrackAt(ts, idx).src))
                /\ hasCleanup' = TRUE
                /\ issued' = <<"pause", "load">>
                /\ switch' = [by |-> by, wasPlaying |-> isPlaying,
                              quiet |-> TRUE,
                              chained |-> Resumed /\ by = "next"]
           ELSE /\ el' = el
                /\ isPlaying' = playing
                /\ progress' = prog
                /\ currentTime' = cur
                /\ listeners' = cleaned
                /\ hasCleanup' = IF changed THEN FALSE ELSE hasCleanup
                /\ issued' = <<>>
                /\ switch' = UserActed(switch)

\* An event handler of the rendered controls runs only while mounted
Mounted == videoRef

\* (mutant) a toggle that always issues play
ToggleCommandPlay(playing) == "play"

\* The command togglePlayPause issues, and the flag it stores
ToggleCommand(playing) == IF playing THEN "pause" ELSE "play"
ToggleFlag(playing) == ~playing

TogglePlayPause ==
    /\ Mounted
    /\ lastOp' = Op("toggle", 0)
    /\ UNCHANGED fmtVars
    /\ switch' = UserActed(switch)
    /\ IF videoRef
       THEN /\ el' = IF ToggleCommand(isPlaying) = "pause"
                       THEN ElPause(el) ELSE ElPlay(el)
            /\ issued' = <<ToggleCommand(isPlaying)>>
            /\ isPlaying' = ToggleFlag(isPlaying)
       ELSE UNCHANGED <<el, isPlaying>> /\ issued' = <<>>
    /\ UNCHANGED <<isMuted, progress, currentTime, duration, playbackRate,
                   tracks, currentTrackIndex, videoRef, effectVars,
                   blobStore>>

\* (mutant) a toggleMute that forwards the flag without negating it
ElMutedValueSame(muted) == muted

\* videoRef.current.muted = !isMuted and setIsMuted(!isMuted)
ElMutedValue(muted) == ~muted
StateMutedValue(muted) == ~muted

ToggleMute ==
    /\ Mounted
    /\ IF videoRef
       THEN /\ el' = [el EXCEPT !.muted = ElMutedValue(isMuted)]
            /\ isMuted' = StateMutedValue(isMuted)
       ELSE UNCHANGED <<el, isMuted>>
    /\ lastOp' = OtherOp
    /\ UNCHANGED fmtVars
    /\ switch' = UserActed(switch)
    /\ issued' = <<>>
    /\ UNCHANGED <<isPlaying, progress, currentTime, duration, playbackRate,
                   tracks, currentTrackIndex, videoRef, effectVars,
                   blobStore>>

\* the element fires timeupdate
HandleTimeUpdate ==
    /\ Mounted
    /\ el.tuQueued
    /\ lastOp' = OtherOp
    /\ UNCHANGED fmtVars
    /\ issued' = <<>>
    /\ el' = [el EXCEPT !.tuQueued = FALSE]
    /\ IF videoRef
       THEN /\ currentTime' = el.time
            /\ progress' = Percent(el.time, el.duration)
       ELSE UNCHANGED <<currentTime, progress>>
    /\ UNCHANGED <<isPlaying, isMuted, duration, playbackRate, tracks,
                   currentTrackIndex, videoRef, effectVars, blobStore,
                   switch>>

\* the element has read the metadata of its source and fires loadedmetadata
HandleLoadedMetadata ==
    /\ el.src # NoSrc
    /\ el.ready = "nothing"
    /\ lastOp' = OtherOp
    /\ UNCHANGED fmtVars
    /\ issued' = <<>>
    /\ el' = [el EXCEPT !.ready = "metadata",
                        !.duration = FileDuration(blobStore[el.src])]
    /\ duration' = IF videoRef THEN el'.duration ELSE duration
    /\ UNCHANGED <<isPlaying, isMuted, progress, currentTime, playbackRate,
                   tracks, currentTrackIndex, videoRef, effectVars,
                   blobStore, switch>>

\* (clickX / rect.width) * duration, the click at k halves of the width;
\* assigning a NaN currentTime throws and the handler ends there
HandleProgressClick(k) ==
    /\ Mounted
    /\ lastOp' = OtherOp
    /\ UNCHANGED fmtVars
    /\ switch' = UserActed(switch)
    /\ issued' = <<>>
    /\ IF videoRef /\ el.duration # NaN
       THEN el' = ElSeek(el, (k * el.duration) \div 2)
       ELSE UNCHANGED el
    /\ UNCHANGED <<stateVars, videoRef, effectVars, blobStore>>

\* (mutant) a handler that forwards the rate of the current render
RateForwardedStale(rate) == playbackRate

\* videoRef.current.playbackRate = rate; el.rate is the rate the component
\* last forwarded to the element
RateForwarded(rate) == rate

HandlePlaybackRateChange(rate) ==
    /\ Mounted
    /\ IF videoRef
       THEN /\ el' = [el EXCEPT !.rate = RateForwarded(rate)]
            /\ playbackRate' = rate
       ELSE UNCHANGED <<el, playbackRate>>
    /\ lastOp' = OtherOp
    /\ UNCHANGED fmtVars
    /\ switch' = UserActed(switch)
    /\ issued' = <<>>
    /\ UNCHANGED <<isPlaying, isMuted, progress, currentTime, duration,
                   tracks, currentTrackIndex, videoRef, effectVars,
                   blobStore>>

\* The rewind and fast-forward buttons
SkipSeconds == 10
Skip(delta) ==
    /\ Mounted
    /\ lastOp' = OtherOp
    /\ UNCHANGED fmtVars
    /\ switch' = UserActed(switch)
    /\ issued' = <<>>
    /\ IF videoRef
       THEN el' = ElSeek(el, el.time + delta)
       ELSE UNCHANGED el
    /\ UNCHANGED <<stateVars, videoRef, effectVars, blobStore>>

\* (mutant) an upload that leaves the current index alone
UploadIndexKept == currentTrackIndex

\* setCurrentTrackIndex(0) of the upload handler
UploadIndex == 0

\* A change event of the file input carries the new selection; it carries an
\* empty list only when the user cleared an earlier, non-empty selection
HandleFileUpload(files) ==
    /\ Mounted
    /\ Len(files) > 0 \/ Len(tracks) > 0
    /\ Len(tracks) + Len(files) <= MaxTracks
    /\ lastOp' = Op("upload", Len(files))
    /\ UNCHANGED fmtVars
    /\ blobStore' = blobStore \o files
    /\ Commit(MergeTracks(tracks, NewTracks(files, Len(blobStore))), TRUE,
              UploadIndex, FALSE, 0, 0, "upload")
    /\ UNCHANGED <<isMuted, duration, playbackRate, videoRef>>

PlayNextTrack ==
    /\ Mounted
    /\ lastOp' = Op("next", 0)
    /\ UNCHANGED fmtVars
    /\ Commit(tracks, FALSE, NextIndex(currentTrackIndex, Len(tracks)),
              isPlaying, progress, currentTime, "next")
    /\ UNCHANGED <<isMuted, duration, playbackRate, videoRef, blobStore>>

\* (mutant) an onLoadedData that reads the playing flag of the latest render
ListenerPlaysCurrent(l) == videoRef /\ isPlaying

\* if (isPlaying) videoRef.current?.play() in the closure l
ListenerPlays(l) == videoRef /\ l.isPlaying

\* the element has decoded the first frame and fires loadeddata: every
\* registered onLoadedData runs
LoadedData ==
    /\ el.ready = "metadata"
    /\ lastOp' = Op("loadeddata", 0)
    /\ UNCHANGED fmtVars
    /\ LET ready == [el EXCEPT !.ready = "data"]
           plays == SelectSeq(listeners, ListenerPlays)
       IN  /\ el' = IF Len(plays) > 0 THEN ElPlay(ready) ELSE ready
           /\ issued' = [i \in 1..Len(plays) |-> "play"]
    /\ UNCHANGED <<stateVars, videoRef, effectVars, blobStore, switch>>

\* playback moves the position of a playing element and queues a timeupdate
Playback ==
    /\ Mounted
    /\ ~el.paused
    /\ el.ready = "data"
    /\ el.time < el.duration
    /\ lastOp' = OtherOp
    /\ UNCHANGED fmtVars
    /\ issued' = <<>>
    /\ el' = [el EXCEPT !.time = Min(el.time + PlaybackStep(el.duration), el.duration),
                        !.tuQueued = TRUE]
    /\ UNCHANGED <<stateVars, videoRef, effectVars, blobStore, switch>>

\* The component unmounts: the ref is detached and the effect's cleanup runs,
\* in an order that depends on the React version
Unmount ==
    /\ Mounted
    /\ lastOp' = OtherOp
    /\ UNCHANGED fmtVars
    /\ issued' = <<>>
    /\ videoRef' = FALSE
    /\ \E refDetachedFirst \in BOOLEAN :
          listeners' = IF hasCleanup /\ ~refDetachedFirst
                       THEN RemoveListener(listeners) ELSE listeners
    /\ hasCleanup' = FALSE
    /\ UNCHANGED <<stateVars, el, blobStore, switch>>

Next ==
    \/ TogglePlayPause
    \/ ToggleMute
    \/ HandleTimeUpdate
    \/ HandleLoadedMetadata
    \/ \E k \in Fractions : HandleProgressClick(k)
    \/ \E rate \in Rates : HandlePlaybackRateChange(rate)
    \/ \E delta \in {-SkipSeconds, SkipSeconds} : Skip(delta)
    \/ \E files \in Selections : HandleFileUpload(files)
    \/ PlayNextTrack
    \/ LoadedData
    \/ Playback
    \/ Unmount

Spec == Init /\ [][Next]_vars

---------------------------------------------------------------------------
\* The mute and speed controls read neither the titles nor the durations of
\* the playlist.  They are explored with every operation of the player, the
\* file picker delivering one and the same file each time.

ControlSelections == {<<>>, <<"a.mp4">>}

NextControls ==
    \/ TogglePlayPause
    \/ ToggleMute
    \/ HandleTimeUpdate
    \/ HandleLoadedMetadata
    \/ \E k \in Fractions : HandleProgressClick(k)
    \/ \E rate \in Rates : HandlePlaybackRateChange(rate)
    \/ \E delta \in {-SkipSeconds, SkipSeconds} : Skip(delta)
    \/ \E files \in ControlSelections : HandleFileUpload(files)
    \/ PlayNextTrack
    \/ LoadedData
    \/ Playback
    \/ Unmount

SpecControls == Init /\ [][NextControls]_vars

---------------------------------------------------------------------------
\* formatTime as a function of its argument: any whole number of seconds up
\* to MaxSeconds is rendered once

InitFormat ==
    /\ PlayerInit
    /\ fmtTime \in 0..MaxSeconds
    /\ fmtText = <<>>

RenderTime ==
    /\ fmtText = <<>>
    /\ fmtText' = FormatTime(fmtTime)
    /\ UNCHANGED <<playerVars, fmtTime>>

NextFormat == RenderTime

SpecFormat == InitFormat /\ [][NextFormat]_vars

---------------------------------------------------------------------------
\* Properties

\* The files of the last upload: the last lastOp.n entries of blobStore
LastFiles == SubSeq(blobStore, Len(blobStore) - lastOp.n + 1, Len(blobStore))
Titles(ts) == [i \in 1..Len(ts) |-> ts[i].title]

\* C1: whenever the playlist is non-empty, the current-track index is an
\* integer in [0, playlist length), also when playNextTrack ran on the empty
\* playlist (leaving NaN) before the upload.
C1_IndexInRange ==
    Len(tracks) > 0 =>
        IsFinite(currentTrackIndex) /\ currentTrackIndex \in 0..(Len(tracks) - 1)
\* next has just moved the index to the last track of a full playlist
C1_Witness ==
    /\ lastOp.name = "next"
    /\ Len(tracks) = MaxTracks
    /\ currentTrackIndex = MaxTracks - 1

\* C2: on a non-empty playlist of length n at index i in [0, n),
\* playNextTrack sets the index to (i + 1) mod n, wrapping n-1 to 0.
C2_NextWraps ==
    [][(lastOp'.name = "next" /\ Len(tracks) > 0
          /\ currentTrackIndex \in 0..(Len(tracks) - 1))
       => /\ currentTrackIndex' = (currentTrackIndex + 1) % Len(tracks)
          /\ (currentTrackIndex = Len(tracks) - 1 => currentTrackIndex' = 0)
      ]_vars
\* next has wrapped a 3-track playlist from index 2 to index 0
C2_Witness ==
    /\ lastOp.name = "next"
    /\ switch.by = "next"
    /\ Len(tracks) = 3
    /\ currentTrackIndex = 0

\* C3: playNextTrack on an empty playlist is a no-op: the index keeps its
\* numeric value and the rest of the state and the element are unchanged.
C3_NextOnEmptyIsNoOp ==
    [][(lastOp'.name = "next" /\ Len(tracks) = 0)
       => /\ currentTrackIndex' = currentTrackIndex
          /\ IsFinite(currentTrackIndex')
          /\ UNCHANGED <<isPlaying, isMuted, progress, currentTime, duration,
                         playbackRate, tracks, el, listeners>>
      ]_vars

\* C4: an upload of files F appends one track per file, in F's order, after
\* the unchanged previous playlist; nothing is dropped or merged, also when a
\* name is already present.
C4_UploadAppends ==
    [][lastOp'.name = "upload"
       => /\ Len(tracks') = Len(tracks) + lastOp'.n
          /\ SubSeq(tracks', 1, Len(tracks)) = tracks
          /\ SubSeq(Titles(tracks'), Len(tracks) + 1, Len(tracks')) = LastFiles'
          /\ \A i, j \in 1..Len(tracks') : i # j => tracks'[i].src # tracks'[j].src
          /\ (Len(tracks) = 0 => Titles(tracks') = LastFiles')
      ]_vars
\* a file named a.mp4 was uploaded into a playlist that already held a.mp4
C4_Witness ==
    /\ lastOp.name = "upload"
    /\ lastOp.n = 1
    /\ Titles(tracks) = <<"a.mp4", "b.mp4", "a.mp4">>
\* [a, b] was uploaded into the empty playlist
C4_WitnessEmpty ==
    /\ lastOp.name = "upload"
    /\ lastOp.n = 2
    /\ Titles(tracks) = <<"a.mp4", "b.mp4">>

\* C5: after an upload the player is Loaded-Paused on index 0 of the merged
\* playlist: index 0, not playing, position and progress 0, the element
\* paused and reloaded with track 0; neither the upload nor the loadeddata
\* that follows it issues play.
C5_UploadResets ==
    /\ lastOp.name = "upload" =>
          /\ Len(tracks) > 0
          /\ currentTrackIndex = 0
          /\ isPlaying = FALSE
          /\ currentTime = 0
          /\ progress = 0
          /\ el.src = tracks[1].src
          /\ el.paused
          /\ el.ready = "nothing"
          /\ issued = <<"pause", "load">>
    /\ (lastOp.name = "loadeddata" /\ switch.by = "upload") => issued = <<>>
\* an upload into a non-empty playlist while the player was playing
C5_Witness ==
    /\ lastOp.name = "upload"
    /\ switch.by = "upload"
    /\ switch.wasPlaying
    /\ Len(tracks) > lastOp.n
\* the loadeddata of such an upload
C5_WitnessLoaded ==
    /\ lastOp.name = "loadeddata"
    /\ switch.by = "upload"
    /\ switch.wasPlaying
    /\ switch.quiet

\* C6: playNextTrack while Playing, then loadeddata of the new track with no
\* user action in between: a play command is issued and the playing flag is
\* true again.
C6_NextResumesPlaying ==
    (/\ lastOp.name = "loadeddata"
     /\ switch.by = "next"
     /\ switch.wasPlaying
     /\ switch.quiet
     /\ videoRef)
    => (issued = <<"play">> /\ ~el.paused /\ isPlaying)

\* C7: at most one loadeddata listener is registered, and it is the one of
\* the most recent track change (it belongs to the source now in the
\* element), so a loadeddata runs no listener of an earlier track.
C7_OneListener ==
    /\ Len(listeners) <= 1
    /\ \A i \in 1..Len(listeners) : listeners[i].src = el.src
    /\ lastOp.name = "loadeddata" => Len(issued) <= 1
\* a second next directly after a first: the track was switched again while
\* the loadeddata of the first switch was pending
C7_Witness ==
    /\ lastOp.name = "next"
    /\ lastOp.rep
    /\ switch.by = "next"
    /\ el.ready = "nothing"
    /\ Len(listeners) = 1

\* C8: a togglePlayPause negates the playing flag and issues the matching
\* command; two in a row restore the flag and issue pause then play (flag
\* was true) or play then pause (flag was false).
C8_ToggleTwice ==
    [][lastOp'.name = "toggle"
       => /\ isPlaying' = ~isPlaying
          /\ issued' = <<IF isPlaying' THEN "play" ELSE "pause">>
          /\ lastOp.name = "toggle" =>
                /\ isPlaying' = lastOp.pre
                /\ issued \o issued' = IF lastOp.pre
                                       THEN <<"pause", "play">>
                                       ELSE <<"play", "pause">>
      ]_vars
\* two toggles in a row, starting from playing
C8_Witness ==
    /\ lastOp.name = "toggle"
    /\ lastOp.rep
    /\ isPlaying
    /\ issued = <<"play">>

\* C9: the playing flag is true only if the playlist is non-empty and a
\* track is loaded in the element (a toggle in Idle does not set it).
C9_PlayingOnlyWhenLoaded ==
    isPlaying => (Len(tracks) > 0 /\ el.src # NoSrc)

\* C10: whenever the stored duration is positive,
\* progress = currentTime / duration * 100.
C10_ProgressFormula ==
    duration > 0 => progress = Percent(currentTime, duration)

\* C11: the isMuted flag always equals the element's muted setting;
\* toggleMute negates both together, and a step that changes either one is
\* such a toggle and changes nothing else of the player.
C11_MuteMirrored ==
    /\ [](isMuted = el.muted)
    /\ [][ToggleMute => (isMuted' = ~isMuted /\ el'.muted = ~el.muted)]_vars
    /\ [][(isMuted' # isMuted \/ el'.muted # el.muted)
          => /\ el' = [el EXCEPT !.muted = ~el.muted]
             /\ UNCHANGED <<isPlaying, progress, currentTime, duration,
                            playbackRate, tracks, currentTrackIndex,
                            listeners>>
         ]_vars
\* muted, and a next has just reloaded the element
C11_Witness ==
    /\ isMuted
    /\ el.muted
    /\ lastOp.name = "next"
    /\ issued = <<"pause", "load">>

\* C12: setPlaybackRate(r) stores r and forwards r to the element; the stored
\* rate is always one of 0.5, 1, 1.5, 2 (initially 1) and equals the rate
\* last forwarded.
C12_RateMirrored ==
    /\ playbackRate = 2
    /\ [](playbackRate \in Rates /\ playbackRate = el.rate)
    /\ [][\A r \in Rates :
            (playbackRate' = r /\ el'.rate = r) \/ ~HandlePlaybackRateChange(r)
         ]_vars
\* rate 1.5 selected, and a next has just reloaded the element
C12_Witness ==
    /\ playbackRate = 3
    /\ el.rate = 3
    /\ lastOp.name = "next"
    /\ issued = <<"pause", "load">>

\* C13: for a whole number of seconds s, formatTime(s) is M:SS with
\* M = floor(s / 60) unpadded and SS = s mod 60 on two digits, without an
\* hours part (0 -> 0:00, 5 -> 0:05, 65 -> 1:05, 3600 -> 60:00).
DigitValue(c) == CHOOSE d \in 0..9 : DigitChar(d) = c
IsDigit(c) == \E d \in 0..9 : DigitChar(d) = c
RECURSIVE TextValue(_)
TextValue(t) == IF Len(t) = 0 THEN 0
                ELSE 10 * TextValue(SubSeq(t, 1, Len(t) - 1))
                       + DigitValue(t[Len(t)])
C13_FormatTime ==
    fmtText # <<>> =>
        LET n == Len(fmtText)
            mins == SubSeq(fmtText, 1, n - 3)
            secs == SubSeq(fmtText, n - 1, n)
        IN  /\ n >= 4
            /\ fmtText[n - 2] = ":"
            /\ \A i \in 1..Len(mins) : IsDigit(mins[i])
            /\ \A i \in 1..2 : IsDigit(secs[i])
            /\ TextValue(mins) = fmtTime \div 60
            /\ (Len(mins) > 1 => mins[1] # "0")
            /\ TextValue(secs) = fmtTime % 60
            /\ (fmtTime = 0 => fmtText = <<"0", ":", "0", "0">>)
            /\ (fmtTime = 5 => fmtText = <<"0", ":", "0", "5">>)
            /\ (fmtTime = 65 => fmtText = <<"1", ":", "0", "5">>)
            /\ (fmtTime = 3600 => fmtText = <<"6", "0", ":", "0", "0">>)
\* one hour was rendered as 60:00
C13_Witness ==
    /\ fmtTime = 3600
    /\ fmtText = <<"6", "0", ":", "0", "0">>

\* C14: from Loaded-Playing on at least 3 tracks, next, loadeddata, next,
\* loadeddata with no other user action ends with the element playing the
\* track of the second switch.
C14_ResumeSurvives ==
    (/\ lastOp.name = "loadeddata"
     /\ switch.by = "next"
     /\ switch.chained
     /\ switch.quiet
     /\ Len(tracks) >= 3
     /\ videoRef)
    => (issued = <<"play">> /\ ~el.paused)

\* C15: whatever toggles come between a track change and its loadeddata, a
\* play command is issued at loadeddata exactly when the playing flag was
\* true in the render that registered the listener (a next made while the
\* flag was true; an upload renders with the flag false).
C15_CapturedDecides ==
    (lastOp.name = "loadeddata" /\ videoRef) =>
        /\ issued \in {<<>>, <<"play">>}
        /\ issued = <<"play">> <=> (switch.by = "next" /\ switch.wasPlaying)
\* the flag was false at the switch and a toggle set it before loadeddata:
\* no play is issued although the flag is true when loadeddata fires
C15_Witness ==
    /\ lastOp.name = "loadeddata"
    /\ switch.by = "next"
    /\ ~switch.wasPlaying
    /\ isPlaying
    /\ issued = <<>>
\* the flag was true at the switch and is false when loadeddata fires: play
\* is issued
C15_WitnessResumed ==
    /\ lastOp.name = "loadeddata"
    /\ switch.by = "next"
    /\ switch.wasPlaying
    /\ ~switch.quiet
    /\ ~isPlaying
    /\ issued = <<"play">>

\* C16: progress is a number in 0..100 and currentTime is >= 0 in every
\* reachable state.
C16_ProgressInRange ==
    /\ IsFinite(progress)
    /\ progress \in 0..100
    /\ IsFinite(currentTime)
    /\ currentTime >= 0

\* C17 (as claimed): every playNextTrack on a non-empty playlist pauses the
\* element, reloads it with the track at the new index and resets position
\* and progress to 0, also on a one-track playlist.
NextReloaded ==
    /\ issued = <<"pause", "load">>
    /\ el.paused
    /\ el.ready = "nothing"
    /\ el.src = TrackAt(tracks, currentTrackIndex).src
    /\ isPlaying = FALSE
    /\ currentTime = 0
    /\ progress = 0
C17_NextAlwaysReloads ==
    (lastOp.name = "next" /\ Len(tracks) >= 1) => NextReloaded
\* C17 (amended): every playNextTrack on a playlist of at least two tracks
\* does so; on a one-track playlist the index stays 0 and next issues no
\* command to the element.
C17_NextReloadsFromTwoTracks ==
    /\ (lastOp.name = "next" /\ Len(tracks) >= 2) => NextReloaded
    /\ (lastOp.name = "next" /\ Len(tracks) = 1) =>
          (issued = <<>> /\ currentTrackIndex = 0)
\* a next made while playing, away from position 0
C17_Witness ==
    /\ lastOp.name = "next"
    /\ Len(tracks) >= 2
    /\ switch.by = "next"
    /\ switch.wasPlaying
    /\ el.tuQueued
    /\ NextReloaded
\* a next on a one-track playlist whose track is playing at position > 0
C17_WitnessOneTrack ==
    /\ lastOp.name = "next"
    /\ Len(tracks) = 1
    /\ ~el.paused
    /\ el.time > 0

\* C18: after an upload of a non-empty list, the current track, the one in
\* the element, is the first file of that list.
C18_StartsFromFirstUploaded ==
    (lastOp.name = "upload" /\ lastOp.n > 0) =>
        /\ HasTrack(tracks, currentTrackIndex)
        /\ TrackAt(tracks, currentTrackIndex).src
             = Len(blobStore) - lastOp.n + 1
        /\ TrackAt(tracks, currentTrackIndex).title = LastFiles[1]
        /\ el.src = Len(blobStore) - lastOp.n + 1

\* C19: with no track load pending, the playing flag is true exactly when
\* the last play/pause command issued to the element was play.
LoadPending == el.src # NoSrc /\ el.ready # "data"
C19_FlagMatchesElement ==
    ~LoadPending => (isPlaying <=> ~el.paused)

===========================================================================
